---- MODULE Spec2Model ----
(***************************************************************************)
(* Research workflow of src/app.py: a Streamlit script that is executed    *)
(* from top to bottom on every user interaction.  One step of the model is *)
(* one user interaction: the execution of the script that handles it and,  *)
(* when the handler ends in st.rerun(), the execution that follows.        *)
(***************************************************************************)
EXTENDS Integers, Sequences, FiniteSets, TLC

VARIABLES
    session_state,  \* st.session_state: step, topic, questions, ...
    widgets,        \* values held by the text inputs that are on the page
    ui,             \* what the last execution rendered: buttons, evaluation
    event           \* the last interaction: button, executions, gateway calls

vars == <<session_state, widgets, ui, event>>

----------------------------------------------------------------------------
(* Bounds of the model *)

MaxLines == 2       \* lines in the clarifying-question reply
MaxQueries == 5     \* entries in a query list returned by the gateway

(* Values the user and the gateway can supply *)

None == 0
TopicInputs == {"", "quantum computing"}
AnswerInputs == {"", "A"}
Lines == {"", " ", "1. Why?"}
Goals == {"G1", "G2"}
QueryPool == <<"qa", "qb">>
SearchTexts == {"found"}
ReportTexts == {"# Report"}
NoFurtherDataNeeded ==
    <<"N", "o", " ", "f", "u", "r", "t", "h", "e", "r", " ", "d", "a", "t", "a", " ", "n", "e", "e", "d", "e", "d">>
EvalTexts ==
    {<<"Y", "e", "s">>, <<"y", "e", "s">>, <<"Y", "E", "S">>,
     <<"E", "y", "e", "s">>, <<"N", "o">>, NoFurtherDataNeeded}

\* identifiers of the gateway: two for the conversation handles of a session,
\* and two ranges for the results of a search pass and of the pass before it
HandleIds == 1..2
ResultIdsA == 3..(MaxQueries + 2)
ResultIdsB == (MaxQueries + 3)..(2 * MaxQueries + 2)

SeqsUpTo(S, n) == UNION {[1..k -> S] : k \in 0..n}
\* the query lists the gateway can reply with: n entries that go round the
\* pool of queries, beginning at any entry of the pool
QueryList(first, n) ==
    [i \in 1..n |-> QueryPool[((first + i - 2) % Len(QueryPool)) + 1]]
QueryLists ==
    {QueryList(first, n) : first \in 1..Len(QueryPool), n \in 0..MaxQueries}

(* Button labels *)

BtnNone == "none"
BtnQuestions == "Next: Generate Clarifying Questions"
BtnPlan == "Next: Generate Research Plan"
BtnSearch == "Next: Run Web Searches"
BtnReport == "Next: Write Final Report"
BtnProceed == "Proceed Anyway"
BtnMore == "Generate 5 More Queries"
BtnRestart == "Start New Research"

(* Outcomes of one execution of the script *)

Ok == "ok"
GatewayError == "gateway_error"
FormatError == "format_error"

----------------------------------------------------------------------------
(* Session state store *)

Keys == {"step", "topic", "questions", "answers", "clarify_id", "goal",
         "queries", "goal_and_queries_id", "collected", "report"}

Defaults == [step |-> 0, topic |-> "", questions |-> <<>>, answers |-> <<>>,
             clarify_id |-> None, goal |-> "", queries |-> <<>>,
             goal_and_queries_id |-> None, collected |-> <<>>, report |-> ""]

NoKeys == [k \in {} |-> None]

\* if 'k' not in st.session_state: st.session_state.k = default
InitSessionState(ss) ==
    [k \in Keys |-> IF k \in DOMAIN ss THEN ss[k] ELSE Defaults[k]]

\* the report is not deleted
DeleteKeys_keep_report(ss, keys) ==
    [k \in DOMAIN ss \ (keys \ {"report"}) |-> ss[k]]

\* only the step is deleted
DeleteKeys_step(ss, keys) == [k \in DOMAIN ss \ {"step"} |-> ss[k]]

\* for key in list(st.session_state.keys()): del st.session_state[key]
DeleteKeys(ss, keys) == [k \in DOMAIN ss \ keys |-> ss[k]]

----------------------------------------------------------------------------
(* Gateway: identifiers are unique among the ones the session still holds *)

RECURSIVE RespIds(_)
RespIds(collected) ==
    IF collected = <<>> THEN {}
    ELSE {Head(collected).resp_id} \cup RespIds(Tail(collected))

\* the smallest identifier of the pool that is not in use
FreshId(pool, used) == CHOOSE i \in pool \ used : \A j \in pool \ used : i <= j

\* the identifier of a new response: none of the handles the session holds
FreshHandle(ss) == FreshId(HandleIds, {ss.clarify_id, ss.goal_and_queries_id})

\* the identifier of a new search result: none of the results the session
\* holds, none of the results collected so far in this pass
FreshResultId(ss, collected) ==
    IF RespIds(ss.collected) \cap ResultIdsA = {}
    THEN FreshId(ResultIdsA, RespIds(collected))
    ELSE FreshId(ResultIdsB, RespIds(collected))

Call(fn, prev, ok, ret) == [fn |-> fn, prev |-> prev, ok |-> ok, ret |-> ret]

----------------------------------------------------------------------------
(* Workflow steps *)

\* q.strip() is empty
IsBlank(line) == line \in {"", " "}

\* text.split("\n") filtered to the non-blank lines, and the response id
get_clarifying_questions(lines, id) ==
    <<SelectSeq(lines, LAMBDA q : ~IsBlank(q)), id>>

\* the query and the text of the result change places
run_search_swapped(query, id, text) ==
    [query |-> text, resp_id |-> id, research_output |-> query]

\* the dict built for one search
run_search(query, id, text) ==
    [query |-> query, resp_id |-> id, research_output |-> text]

LowerChar(c) ==
    CASE c = "Y" -> "y"
      [] c = "E" -> "e"
      [] c = "S" -> "s"
      [] c = "N" -> "n"
      [] c = "O" -> "o"
      [] OTHER -> c

\* str.lower()
Lower(text) == [i \in 1..Len(text) |-> LowerChar(text[i])]

\* needle in text
Contains(needle, text) ==
    \E i \in 0..(Len(text) - Len(needle)) :
        \A j \in 1..Len(needle) : text[i + j] = needle[j]

\* "yes" in response_text
evaluate_responses_case_sensitive(response_text) ==
    <<Contains(<<"y", "e", "s">>, response_text), response_text>>

\* ("yes" in response_text.lower(), response_text)
evaluate_responses(response_text) ==
    <<Contains(<<"y", "e", "s">>, Lower(response_text)), response_text>>

----------------------------------------------------------------------------
(* One execution of the script that handles no button *)

Run(step, calls, outcome) == [step |-> step, calls |-> calls, outcome |-> outcome]

Result(ss, w, buttons, eval, run, rerun) ==
    [ss |-> ss, w |-> w, ui |-> [buttons |-> buttons, eval_response |-> eval],
     run |-> run, rerun |-> rerun]

NoWidgets == [topic |-> "", answers |-> <<>>]

\* the values of the text inputs answer_0 .. answer_{n-1}
AnswerWidgets(ss, w) ==
    [i \in 1..Len(ss.questions) |->
        IF i <= Len(w.answers) THEN w.answers[i] ELSE ""]

\* any(answers)
All_any(answers) == \E i \in 1..Len(answers) : answers[i] # ""

\* all(answers)
All(answers) == \A i \in 1..Len(answers) : answers[i] # ""

\* the button is rendered whatever the topic is
Step0Buttons_always(ss) == {BtnQuestions}

Step0Buttons(ss) == IF ss.topic # "" THEN {BtnQuestions} ELSE {}

\* st.session_state.topic = st.text_input(...)
Step0Topic(ss, w) == [ss EXCEPT !.topic = w.topic]

\* the answers are written to the session while they are gathered
Step1Gather_store(ss, answers) == [ss EXCEPT !.answers = answers]

\* answers = []; answers.append(answer): a local list, the session is not
\* written
Step1Gather(ss, answers) == ss

Step1Buttons(answers) == IF All(answers) THEN {BtnPlan} ELSE {}

Step3Buttons(is_sufficient) ==
    IF is_sufficient THEN {BtnReport} ELSE {BtnProceed, BtnMore}

EvalCall(ev) == Call("evaluate_responses", None, ev.ok, ev.text)

Render(ss0, w, ev) ==
    LET ss == InitSessionState(ss0) IN
    CASE ss.step = 0 ->
            LET s1 == Step0Topic(ss, w) IN
            Result(s1, [topic |-> w.topic, answers |-> <<>>],
                   Step0Buttons(s1), <<>>, Run(0, <<>>, Ok), FALSE)
      [] ss.step = 1 ->
            LET answers == AnswerWidgets(ss, w) IN
            Result(Step1Gather(ss, answers), [topic |-> "", answers |-> answers],
                   Step1Buttons(answers), <<>>, Run(1, <<>>, Ok), FALSE)
      [] ss.step = 2 ->
            Result(ss, NoWidgets, {BtnSearch}, <<>>, Run(2, <<>>, Ok), FALSE)
      [] ss.step = 3 ->
            IF ev.ok
            THEN Result(ss, NoWidgets,
                        Step3Buttons(evaluate_responses(ev.text)[1]),
                        ev.text, Run(3, <<EvalCall(ev)>>, Ok), FALSE)
            ELSE Result(ss, NoWidgets, {}, <<>>,
                        Run(3, <<EvalCall(ev)>>, GatewayError), FALSE)
      [] ss.step = 4 ->
            Result(ss, NoWidgets, {BtnRestart}, <<>>, Run(4, <<>>, Ok), FALSE)
      [] OTHER ->
            Result(ss, NoWidgets, {}, <<>>, Run(ss.step, <<>>, Ok), FALSE)

EvalOutcomes ==
    {[ok |-> FALSE, text |-> <<>>]} \cup {[ok |-> TRUE, text |-> t] : t \in EvalTexts}

\* the evaluator is called only by an execution at step 3
EvalOutcomesAt(ss) ==
    IF "step" \in DOMAIN ss /\ ss.step = 3 THEN EvalOutcomes
    ELSE {[ok |-> TRUE, text |-> <<>>]}

\* the interaction is over: the handler's execution r, then the execution
\* started by st.rerun() when the handler reached it
Finish(button, r) ==
    IF r.rerun
    THEN \E ev \in EvalOutcomesAt(r.ss) :
            LET r2 == Render(r.ss, r.w, ev) IN
            /\ session_state' = r2.ss
            /\ widgets' = r2.w
            /\ ui' = r2.ui
            /\ event' = [button |-> button, runs |-> <<r.run, r2.run>>]
    ELSE /\ session_state' = r.ss
         /\ widgets' = r.w
         /\ ui' = r.ui
         /\ event' = [button |-> button, runs |-> <<r.run>>]

----------------------------------------------------------------------------
(* Initial state: the first execution of the script in a new session *)

Init ==
    LET r == Render(NoKeys, NoWidgets, [ok |-> TRUE, text |-> <<>>]) IN
    /\ session_state = r.ss
    /\ widgets = r.w
    /\ ui = r.ui
    /\ event = [button |-> BtnNone, runs |-> <<r.run>>]

----------------------------------------------------------------------------
(* Interactions without a button *)

\* the user asks for a re-run of the script
Rerender ==
    \E ev \in EvalOutcomesAt(session_state) :
        Finish(BtnNone, Render(session_state, widgets, ev))

\* the user changes the topic input
EditTopic ==
    /\ session_state.step = 0
    /\ \E t \in TopicInputs :
        /\ t # widgets.topic
        /\ Finish(BtnNone,
                  Render(session_state, [widgets EXCEPT !.topic = t],
                         [ok |-> TRUE, text |-> <<>>]))

\* the user changes the input of one answer
EditAnswer ==
    /\ session_state.step = 1
    /\ \E i \in 1..Len(widgets.answers), a \in AnswerInputs :
        /\ a # widgets.answers[i]
        /\ Finish(BtnNone,
                  Render(session_state, [widgets EXCEPT !.answers[i] = a],
                         [ok |-> TRUE, text |-> <<>>]))

----------------------------------------------------------------------------
(* Step 0: "Next: Generate Clarifying Questions" *)

ClarifyOutcomes ==
    {[ok |-> FALSE, lines |-> <<>>]}
        \cup {[ok |-> TRUE, lines |-> l] : l \in SeqsUpTo(Lines, MaxLines)}

\* questions, clarify_id = get_clarifying_questions(topic); step = 1
Step0Store(ss, r) ==
    [ss EXCEPT !.questions = r[1], !.clarify_id = r[2], !.step = 1]

\* a failed call is made a second time
Handle0_retry(ss0, w, out) ==
    LET ss == InitSessionState(ss0)
        s1 == Step0Topic(ss, w)
        w1 == [topic |-> w.topic, answers |-> <<>>]
        id == FreshHandle(s1)
        r  == get_clarifying_questions(out.lines, id)
        failed == Call("get_clarifying_questions", None, FALSE, <<>>)
    IN  IF BtnQuestions \notin Step0Buttons(s1) THEN Render(ss0, w, out)
        ELSE IF ~out.ok
        THEN Result(s1, w1, {BtnQuestions}, <<>>,
                    Run(0, <<failed, failed>>, GatewayError), FALSE)
        ELSE Result(Step0Store(s1, r), w1, {BtnQuestions}, <<>>,
                    Run(0, <<Call("get_clarifying_questions", None, TRUE, r)>>, Ok),
                    TRUE)

Handle0(ss0, w, out) ==
    LET ss == InitSessionState(ss0)
        s1 == Step0Topic(ss, w)
        w1 == [topic |-> w.topic, answers |-> <<>>]
        id == FreshHandle(s1)
        r  == get_clarifying_questions(out.lines, id)
    IN  IF BtnQuestions \notin Step0Buttons(s1) THEN Render(ss0, w, out)
        ELSE IF ~out.ok
        THEN Result(s1, w1, {BtnQuestions}, <<>>,
                    Run(0, <<Call("get_clarifying_questions", None, FALSE, <<>>)>>,
                        GatewayError), FALSE)
        ELSE Result(Step0Store(s1, r), w1, {BtnQuestions}, <<>>,
                    Run(0, <<Call("get_clarifying_questions", None, TRUE, r)>>, Ok),
                    TRUE)

ClickQuestions ==
    /\ BtnQuestions \in ui.buttons
    /\ \E out \in ClarifyOutcomes :
        Finish(BtnQuestions, Handle0(session_state, widgets, out))

----------------------------------------------------------------------------
(* Step 1: "Next: Generate Research Plan" *)

PlanObjects ==
    {NoKeys} \cup {[goal |-> g] : g \in Goals}
        \cup {[queries |-> q] : q \in QueryLists}
        \cup {[goal |-> g, queries |-> q] : g \in Goals, q \in QueryLists}

\* the gateway fails, or replies with text that is JSON or is not
PlanOutcomes ==
    {[ok |-> FALSE, json |-> FALSE, value |-> NoKeys],
     [ok |-> TRUE, json |-> FALSE, value |-> NoKeys]}
        \cup {[ok |-> TRUE, json |-> TRUE, value |-> o] : o \in PlanObjects}

\* plan, id = (json.loads(text), response.id)
get_goal_and_queries(out, id) == <<out.value, id>>

\* st.session_state.answers = answers
Step1Answers(ss, answers) == [ss EXCEPT !.answers = answers]

\* st.session_state.goal = plan["goal"]
Step1Goal(ss, plan) == [ss EXCEPT !.goal = plan.goal]

\* plan["queries"][1:]
Step1Store_slice(ss, plan, plan_id) ==
    [ss EXCEPT !.queries = IF plan.queries = <<>> THEN <<>> ELSE Tail(plan.queries),
               !.goal_and_queries_id = plan_id, !.step = 2]

\* queries = plan["queries"]; goal_and_queries_id = plan_id; step = 2
Step1Store(ss, plan, plan_id) ==
    [ss EXCEPT !.queries = plan.queries, !.goal_and_queries_id = plan_id,
               !.step = 2]

Handle1(ss0, w, out) ==
    LET ss == InitSessionState(ss0)
        answers == AnswerWidgets(ss, w)
        w1 == [topic |-> "", answers |-> answers]
        s1 == Step1Answers(Step1Gather(ss, answers), answers)
        id == FreshHandle(s1)
        r  == get_goal_and_queries(out, id)
        plan == r[1]
        call(ok, ret) == Call("get_goal_and_queries", s1.clarify_id, ok, ret)
    IN  IF BtnPlan \notin Step1Buttons(answers) THEN Render(ss0, w, out)
        ELSE IF ~out.ok
        THEN Result(s1, w1, {BtnPlan}, <<>>,
                    Run(1, <<call(FALSE, <<>>)>>, GatewayError), FALSE)
        ELSE IF ~out.json
        THEN Result(s1, w1, {BtnPlan}, <<>>,
                    Run(1, <<call(TRUE, <<>>)>>, FormatError), FALSE)
        ELSE IF "goal" \notin DOMAIN plan
        THEN Result(s1, w1, {BtnPlan}, <<>>,
                    Run(1, <<call(TRUE, r)>>, FormatError), FALSE)
        ELSE IF "queries" \notin DOMAIN plan
        THEN Result(Step1Goal(s1, plan), w1, {BtnPlan}, <<>>,
                    Run(1, <<call(TRUE, r)>>, FormatError), FALSE)
        ELSE Result(Step1Store(Step1Goal(s1, plan), plan, r[2]), w1, {BtnPlan},
                    <<>>, Run(1, <<call(TRUE, r)>>, Ok), TRUE)

ClickPlan ==
    /\ BtnPlan \in ui.buttons
    /\ \E out \in PlanOutcomes :
        Finish(BtnPlan, Handle1(session_state, widgets, out))

----------------------------------------------------------------------------
(* Step 2: "Next: Run Web Searches" *)

\* each search continues from the result of the search before it
RECURSIVE SearchLoop_chained(_, _, _, _, _, _)
SearchLoop_chained(ss, collected, calls, i, fail, texts) ==
    LET prev == IF collected = <<>> THEN ss.goal_and_queries_id
                ELSE collected[Len(collected)].resp_id
    IN  IF i > Len(ss.queries)
        THEN [collected |-> collected, calls |-> calls, ok |-> TRUE]
        ELSE IF i = fail
        THEN [collected |-> collected,
              calls |-> Append(calls, Call("run_search", prev, FALSE, <<>>)),
              ok |-> FALSE]
        ELSE LET item == run_search(ss.queries[i],
                                    FreshResultId(ss, collected), texts[i])
             IN  SearchLoop_chained(ss, Append(collected, item),
                                    Append(calls, Call("run_search", prev, TRUE,
                                                       item.query)),
                                    i + 1, fail, texts)

\* a failing call ends the loop and the results so far are kept
RECURSIVE SearchLoop_partial(_, _, _, _, _, _)
SearchLoop_partial(ss, collected, calls, i, fail, texts) ==
    IF i > Len(ss.queries)
    THEN [collected |-> collected, calls |-> calls, ok |-> TRUE]
    ELSE IF i = fail
    THEN [collected |-> collected,
          calls |-> Append(calls, Call("run_search", ss.goal_and_queries_id,
                                       FALSE, <<>>)),
          ok |-> TRUE]
    ELSE LET item == run_search(ss.queries[i],
                                FreshResultId(ss, collected), texts[i])
         IN  SearchLoop_partial(ss, Append(collected, item),
                                Append(calls, Call("run_search",
                                                   ss.goal_and_queries_id,
                                                   TRUE, item.query)),
                                i + 1, fail, texts)

\* for q in queries: collected.append(run_search(q, goal_and_queries_id));
\* the call for query number fail raises
RECURSIVE SearchLoop(_, _, _, _, _, _)
SearchLoop(ss, collected, calls, i, fail, texts) ==
    IF i > Len(ss.queries)
    THEN [collected |-> collected, calls |-> calls, ok |-> TRUE]
    ELSE IF i = fail
    THEN [collected |-> collected,
          calls |-> Append(calls, Call("run_search", ss.goal_and_queries_id,
                                       FALSE, <<>>)),
          ok |-> FALSE]
    ELSE LET item == run_search(ss.queries[i],
                                FreshResultId(ss, collected), texts[i])
         IN  SearchLoop(ss, Append(collected, item),
                        Append(calls, Call("run_search", ss.goal_and_queries_id,
                                           TRUE, item.query)),
                        i + 1, fail, texts)

\* st.session_state.collected.extend(collected)
Step2Store_extend(ss, collected) ==
    [ss EXCEPT !.collected = ss.collected \o collected, !.step = 3]

\* st.session_state.collected = collected; step = 3
Step2Store(ss, collected) == [ss EXCEPT !.collected = collected, !.step = 3]

Handle2(ss0, w, fail, texts) ==
    LET ss == InitSessionState(ss0)
        loop == SearchLoop(ss, <<>>, <<>>, 1, fail, texts)
    IN  IF ~loop.ok
        THEN Result(ss, NoWidgets, {BtnSearch}, <<>>,
                    Run(2, loop.calls, GatewayError), FALSE)
        ELSE Result(Step2Store(ss, loop.collected), NoWidgets, {BtnSearch}, <<>>,
                    Run(2, loop.calls, Ok), TRUE)

ClickSearch ==
    /\ BtnSearch \in ui.buttons
    /\ \E fail \in 1..(Len(session_state.queries) + 1),
          texts \in [1..Len(session_state.queries) -> SearchTexts] :
        Finish(BtnSearch, Handle2(session_state, widgets, fail, texts))

----------------------------------------------------------------------------
(* Step 3: evaluation, then "Next: Write Final Report", "Proceed Anyway" or
   "Generate 5 More Queries" *)

ReportOutcomes ==
    {[ok |-> FALSE, text |-> ""]} \cup {[ok |-> TRUE, text |-> t] : t \in ReportTexts}

MoreOutcomes ==
    {[ok |-> FALSE, json |-> FALSE, value |-> <<>>],
     [ok |-> TRUE, json |-> FALSE, value |-> <<>>]}
        \cup {[ok |-> TRUE, json |-> TRUE, value |-> q] : q \in QueryLists}

\* json.loads(text)
get_more_queries(out) == out.value

\* the text of the reply
write_final_report(out) == out.text

\* the step after the last one
Step3Report_step5(ss, report) == [ss EXCEPT !.report = report, !.step = 5]

\* st.session_state.report = write_final_report(goal, collected); step = 4
Step3Report(ss, report) == [ss EXCEPT !.report = report, !.step = 4]

\* the new queries are appended, and the step is the one before
Step3More_append(ss, more_queries) ==
    [ss EXCEPT !.queries = ss.queries \o more_queries, !.step = 2]

Step3More_step1(ss, more_queries) ==
    [ss EXCEPT !.queries = more_queries, !.step = 1]

\* st.session_state.queries = more_queries; step = 2
Step3More(ss, more_queries) == [ss EXCEPT !.queries = more_queries, !.step = 2]

\* the evaluation is made on demand: a click is handled without one
Handle3_on_demand(ss0, w, button, ev, out) ==
    LET ss == InitSessionState(ss0) IN
    IF button \in {BtnReport, BtnProceed} /\ out.ok
    THEN Result(Step3Report(ss, write_final_report(out)), NoWidgets, {button},
                <<>>,
                Run(3, <<Call("write_final_report", None, TRUE,
                              write_final_report(out))>>, Ok), TRUE)
    ELSE Render(ss0, w, ev)

\* the button clicked is handled whatever the evaluation of the execution is
Handle3_stale(ss0, w, button, ev, out) ==
    LET ss == InitSessionState(ss0) IN
    IF ~ev.ok \/ ~out.ok THEN Render(ss0, w, ev)
    ELSE IF button = BtnMore
    THEN IF ~out.json THEN Render(ss0, w, ev)
         ELSE Result(Step3More(ss, get_more_queries(out)), NoWidgets, {button},
                     ev.text,
                     Run(3, <<EvalCall(ev),
                              Call("get_more_queries", ss.goal_and_queries_id,
                                   TRUE, get_more_queries(out))>>, Ok), TRUE)
    ELSE Result(Step3Report(ss, write_final_report(out)), NoWidgets, {button},
                ev.text,
                Run(3, <<EvalCall(ev),
                         Call("write_final_report", None, TRUE,
                              write_final_report(out))>>, Ok), TRUE)

Handle3(ss0, w, button, ev, out) ==
    LET ss == InitSessionState(ss0)
        is_sufficient == evaluate_responses(ev.text)[1]
        report == Call("write_final_report", None, out.ok,
                       IF out.ok THEN write_final_report(out) ELSE <<>>)
        more == Call("get_more_queries", ss.goal_and_queries_id, out.ok,
                     IF out.ok /\ out.json THEN get_more_queries(out) ELSE <<>>)
        halted(buttons, call, outcome) ==
            Result(ss, NoWidgets, buttons, ev.text,
                   Run(3, <<EvalCall(ev), call>>, outcome), FALSE)
    IN  IF ~ev.ok THEN Render(ss0, w, ev)
        ELSE IF is_sufficient
        THEN IF button # BtnReport THEN Render(ss0, w, ev)
             ELSE IF ~out.ok THEN halted({BtnReport}, report, GatewayError)
             ELSE Result(Step3Report(ss, write_final_report(out)), NoWidgets,
                         {BtnReport}, ev.text,
                         Run(3, <<EvalCall(ev), report>>, Ok), TRUE)
        ELSE IF button = BtnProceed
        THEN IF ~out.ok THEN halted({BtnProceed}, report, GatewayError)
             ELSE Result(Step3Report(ss, write_final_report(out)), NoWidgets,
                         {BtnProceed}, ev.text,
                         Run(3, <<EvalCall(ev), report>>, Ok), TRUE)
        ELSE IF button = BtnMore
        THEN IF ~out.ok
             THEN halted({BtnProceed, BtnMore}, more, GatewayError)
             ELSE IF ~out.json
             THEN halted({BtnProceed, BtnMore}, more, FormatError)
             ELSE Result(Step3More(ss, get_more_queries(out)), NoWidgets,
                         {BtnProceed, BtnMore}, ev.text,
                         Run(3, <<EvalCall(ev), more>>, Ok), TRUE)
        ELSE Render(ss0, w, ev)

ClickReport ==
    /\ BtnReport \in ui.buttons
    /\ \E ev \in EvalOutcomes, out \in ReportOutcomes :
        Finish(BtnReport, Handle3(session_state, widgets, BtnReport, ev, out))

ClickProceed ==
    /\ BtnProceed \in ui.buttons
    /\ \E ev \in EvalOutcomes, out \in ReportOutcomes :
        Finish(BtnProceed, Handle3(session_state, widgets, BtnProceed, ev, out))

ClickMore ==
    /\ BtnMore \in ui.buttons
    /\ \E ev \in EvalOutcomes, out \in MoreOutcomes :
        Finish(BtnMore, Handle3(session_state, widgets, BtnMore, ev, out))

----------------------------------------------------------------------------
(* Step 4: "Start New Research" *)

Handle4(ss0, w) ==
    LET ss == InitSessionState(ss0) IN
    Result(DeleteKeys(ss, DOMAIN ss), NoWidgets, {BtnRestart}, <<>>,
           Run(4, <<>>, Ok), TRUE)

ClickRestart ==
    /\ BtnRestart \in ui.buttons
    /\ Finish(BtnRestart, Handle4(session_state, widgets))

----------------------------------------------------------------------------
Next ==
    \/ Rerender
    \/ EditTopic
    \/ EditAnswer
    \/ ClickQuestions
    \/ ClickPlan
    \/ ClickSearch
    \/ ClickReport
    \/ ClickProceed
    \/ ClickMore
    \/ ClickRestart

Spec == Init /\ [][Next]_vars

----------------------------------------------------------------------------
(* The session of a user who goes for the report: every gateway call
   succeeds, no more queries are asked for, and the user keeps clicking a
   button that is on the page. *)

\* no gateway call of the last interaction raised
GatewayOk ==
    \A r \in 1..Len(event.runs) : \A c \in 1..Len(event.runs[r].calls) :
        event.runs[r].calls[c].ok

GoQuestions == ClickQuestions /\ GatewayOk'

GoPlan == ClickPlan /\ GatewayOk'

GoSearch == ClickSearch /\ GatewayOk'

GoReport == ClickReport /\ GatewayOk'

GoProceed == ClickProceed /\ GatewayOk'

NextTowardsReport ==
    \/ EditTopic
    \/ EditAnswer
    \/ GoQuestions
    \/ GoPlan
    \/ GoSearch
    \/ GoReport
    \/ GoProceed
    \/ ClickRestart

\* at step 3 the user does not stop clicking
SpecTowardsReport ==
    Init /\ [][NextTowardsReport]_vars /\ WF_vars(GoReport \/ GoProceed)

----------------------------------------------------------------------------
(* Properties *)

\* C1: in every reachable state the step index is one of 0, 1, 2, 3, 4.
C1_StepInRange == session_state.step \in 0..4

C1_Witness == session_state.step = 4 /\ event.button = BtnProceed

\* C2: the step starts at 0 and changes only along 0->1, 1->2, 2->3, 3->4,
\* 3->2 and 4->0, and it leaves 4 only by the restart action.
C2_StepFlow ==
    /\ session_state.step = 0
    /\ [][\/ session_state'.step = session_state.step
          \/ /\ <<session_state.step, session_state'.step>> \in
                    {<<0, 1>>, <<1, 2>>, <<2, 3>>, <<3, 4>>, <<3, 2>>, <<4, 0>>}
             /\ session_state.step = 4 => event'.button = BtnRestart]_vars

C2_Witness ==
    /\ session_state.step = 2
    /\ event.button = BtnMore
    /\ session_state.collected # <<>>

\* C3: the restart action puts every session field back to its initial value
\* and the step back to 0.
C3_RestartClears == event.button = BtnRestart => session_state = Defaults

C3_Witness ==
    /\ event.button = BtnRestart
    /\ session_state.step = 0
    /\ session_state.report = ""

\* C4: when a gateway call fails in the execution that handles an
\* interaction, every session field has the value it had before.
C4_FailureKeepsState ==
    [][event'.runs[1].outcome = GatewayError => session_state' = session_state]_vars

\* C5: when the planner's reply is not JSON or lacks goal or queries, the
\* step stays 1 and goal, queries and the planner handle are not modified.
C5_PlanningStoresNothing ==
    [][event'.button = BtnPlan /\ event'.runs[1].outcome = FormatError =>
            /\ session_state'.step = 1
            /\ session_state'.goal = session_state.goal
            /\ session_state'.queries = session_state.queries
            /\ session_state'.goal_and_queries_id =
                    session_state.goal_and_queries_id]_vars

\* C6: at step 3 and at step 4, collected is as long as queries and the i-th
\* result is the result of the i-th query.
C6_CollectedMatchesQueries ==
    session_state.step \in {3, 4} =>
        /\ Len(session_state.collected) = Len(session_state.queries)
        /\ \A i \in 1..Len(session_state.queries) :
                session_state.collected[i].query = session_state.queries[i]

\* a second search pass over five queries
C6_Witness ==
    /\ session_state.step = 3
    /\ event.button = BtnSearch
    /\ Len(session_state.queries) = 5
    /\ session_state.collected[1].resp_id \in ResultIdsB

\* C7 as stated: right after 1->2 and right after 3->2 the queries list has
\* exactly 5 entries.
C7_AlwaysFiveQueries ==
    [][session_state.step \in {1, 3} /\ session_state'.step = 2 =>
            Len(session_state'.queries) = 5]_vars

\* C7 as amended: right after 1->2 the queries list is the queries value of
\* the planner's reply, right after 3->2 it is the list of the additional-query
\* reply; it has 5 entries exactly when that reply has 5.
C7_QueriesAreTheReply ==
    [][/\ session_state.step = 1 /\ session_state'.step = 2 =>
            /\ event'.runs[1].calls[1].fn = "get_goal_and_queries"
            /\ session_state'.queries = event'.runs[1].calls[1].ret[1].queries
       /\ session_state.step = 3 /\ session_state'.step = 2 =>
            /\ event'.runs[1].calls[2].fn = "get_more_queries"
            /\ session_state'.queries = event'.runs[1].calls[2].ret]_vars

C7_Witness ==
    /\ session_state.step = 2
    /\ event.button = BtnPlan
    /\ Len(session_state.queries) = 5

\* C8: the more-queries action, handled at step 3 after an evaluation that is
\* not sufficient, sets queries to the list the generator returned and the
\* step to 2, and changes no other field.
C8_MoreQueriesReplaces ==
    [][/\ event'.button = BtnMore
       /\ Len(event'.runs[1].calls) = 2
       /\ event'.runs[1].outcome = Ok
       =>
       /\ session_state.step = 3
       /\ ~evaluate_responses(event'.runs[1].calls[1].ret)[1]
       /\ session_state' =
            [session_state EXCEPT !.queries = event'.runs[1].calls[2].ret,
                                  !.step = 2]]_vars

\* the new list is shorter than the one it replaces
C8_Witness ==
    /\ event.button = BtnMore
    /\ session_state.step = 2
    /\ Len(event.runs[1].calls) = 2
    /\ session_state.queries # <<>>
    /\ Len(session_state.queries) < Len(session_state.collected)

\* C9: an interaction without a button changes no session field but the
\* topic, and calls no planner.
C9_RenderChangesNothing ==
    [][event'.button = BtnNone =>
            /\ session_state' = [session_state EXCEPT !.topic = session_state'.topic]
            /\ \A r \in 1..Len(event'.runs) :
                \A c \in 1..Len(event'.runs[r].calls) :
                    event'.runs[r].calls[c].fn # "get_goal_and_queries"]_vars

C9_Witness ==
    /\ event.button = BtnNone
    /\ session_state.step = 2
    /\ session_state.goal # ""
    /\ session_state.queries # <<>>
    /\ session_state.collected # <<>>

\* C10: when the step leaves 1, the stored answers are the values of the
\* answer inputs, one for each question, and none of them is empty.
C10_AnswersComplete ==
    [][session_state.step = 1 /\ session_state'.step # 1 =>
            /\ session_state'.questions = session_state.questions
            /\ session_state'.answers = widgets.answers
            /\ Len(session_state'.answers) = Len(session_state'.questions)
            /\ \A i \in 1..Len(session_state'.answers) :
                    session_state'.answers[i] # ""]_vars

C10_Witness ==
    /\ event.button = BtnPlan
    /\ session_state.step = 2
    /\ Len(session_state.questions) = 2
    /\ Len(session_state.answers) = 2

\* C11: an execution at step 3 calls the evaluator exactly once, first; a
\* report or more-queries call comes second, after an evaluation that
\* succeeded, and the buttons rendered are buttons of the branch of that
\* evaluation (all of them when nothing halted the execution).
C11_EvaluationFirst ==
    \A r \in 1..Len(event.runs) :
        LET run == event.runs[r] IN
        run.step = 3 =>
            /\ Len(run.calls) \in {1, 2}
            /\ run.calls[1].fn = "evaluate_responses"
            /\ Len(run.calls) = 2 =>
                /\ run.calls[1].ok
                /\ run.calls[2].fn \in {"write_final_report", "get_more_queries"}
            /\ r = Len(event.runs) =>
                IF run.calls[1].ok
                THEN /\ ui.buttons \subseteq
                            Step3Buttons(evaluate_responses(run.calls[1].ret)[1])
                     /\ ui.eval_response = run.calls[1].ret
                     /\ Len(run.calls) = 1 =>
                            ui.buttons =
                                Step3Buttons(evaluate_responses(run.calls[1].ret)[1])
                ELSE ui.buttons = {}

\* the report button was clicked, and the evaluation of that execution gave
\* the other branch
C11_Witness ==
    /\ event.button = BtnReport
    /\ session_state.step = 3
    /\ ui.buttons = {BtnProceed, BtnMore}

\* C12 as stated: the execution that handles an interaction other than the
\* search makes at most one gateway call.
C12_OneCallPerAction ==
    event.button # BtnSearch => Len(event.runs[1].calls) <= 1

\* C12 as amended: the execution that handles an interaction other than the
\* search makes at most one gateway call besides the evaluation that every
\* execution at step 3 begins with: none for restart and for an interaction
\* without a button, one for questions and plan, the evaluation and one more
\* for write report, proceed anyway and more queries.
C12_OneCallBesidesEvaluation ==
    event.button # BtnSearch =>
        LET run == event.runs[1] IN
        /\ run.step # 3 => Len(run.calls) <= 1
        /\ run.step = 3 =>
            /\ Len(run.calls) <= 2
            /\ run.calls[1].fn = "evaluate_responses"
        /\ event.button \in {BtnNone, BtnRestart} /\ run.step # 3 =>
                run.calls = <<>>

\* a report written after the evaluation of the same execution
C12_Witness ==
    /\ event.button = BtnProceed
    /\ session_state.step = 4
    /\ Len(event.runs[1].calls) = 2
    /\ event.runs[1].calls[2].fn = "write_final_report"

\* C13: when a search call of a batch fails, the step stays 2 and collected,
\* queries and every other session field keep their values.
C13_FailedBatchAborted ==
    [][/\ event'.button = BtnSearch
       /\ \E c \in 1..Len(event'.runs[1].calls) : ~event'.runs[1].calls[c].ok
       =>
       /\ session_state'.step = 2
       /\ session_state' = session_state]_vars

\* the third call of a second pass failed, after two calls that succeeded
C13_Witness ==
    /\ event.button = BtnSearch
    /\ session_state.step = 2
    /\ Len(event.runs[1].calls) = 3
    /\ ~event.runs[1].calls[3].ok
    /\ session_state.collected # <<>>

\* C14: the step leaves 0 only with a topic that is not empty, and while the
\* step is not 0 the topic keeps the value it had at the transition 0->1.
C14_TopicImmutable ==
    [][session_state'.step # 0 =>
            /\ session_state'.topic = session_state.topic
            /\ session_state'.topic # ""]_vars

C14_Witness ==
    /\ session_state.step = 4
    /\ session_state.topic = "quantum computing"
    /\ event.button = BtnReport

\* C15: the reply is taken as sufficient exactly when it holds a y, an e and
\* an s in a row, each in upper or lower case: the report button is rendered
\* for such a reply, the other two buttons for any other reply, and a report
\* is written by the advance action only after such a reply.
C15_YesSubstring ==
    LET run == event.runs[Len(event.runs)]
        text == run.calls[1].ret
        yes == \E i \in 1..(Len(text) - 2) :
                    /\ text[i] \in {"y", "Y"}
                    /\ text[i + 1] \in {"e", "E"}
                    /\ text[i + 2] \in {"s", "S"}
    IN  run.step = 3 /\ run.calls[1].ok =>
            /\ Len(run.calls) = 1 =>
                    ui.buttons = IF yes THEN {BtnReport} ELSE {BtnProceed, BtnMore}
            /\ Len(run.calls) = 2 => (event.button = BtnReport <=> yes)
            /\ text = NoFurtherDataNeeded => BtnReport \notin ui.buttons
            /\ text \in {<<"Y", "e", "s">>, <<"y", "e", "s">>, <<"Y", "E", "S">>} =>
                    BtnReport \in ui.buttons

\* "yes" within a word, in upper case
C15_Witness ==
    /\ session_state.step = 3
    /\ ui.eval_response = <<"E", "y", "e", "s">>
    /\ ui.buttons = {BtnReport}

\* C16: the step goes from 3 to 2 only by the more-queries button in an
\* execution whose evaluation is not sufficient, and from 3 to 4 only by the
\* advance button after a sufficient evaluation of the same execution or by
\* the proceed-anyway button after one that is not sufficient.
C16_BranchOfOwnEvaluation ==
    [][session_state.step = 3 /\ session_state'.step # 3 =>
        LET eval == event'.runs[1].calls[1]
            is_sufficient == evaluate_responses(eval.ret)[1]
        IN  /\ eval.fn = "evaluate_responses"
            /\ eval.ok
            /\ session_state'.step = 2 =>
                    event'.button = BtnMore /\ ~is_sufficient
            /\ session_state'.step = 4 =>
                    \/ event'.button = BtnReport /\ is_sufficient
                    \/ event'.button = BtnProceed /\ ~is_sufficient]_vars

\* the report was written by the advance button
C16_Witness ==
    /\ session_state.step = 4
    /\ event.button = BtnReport
    /\ event.runs[1].calls[1].ret = <<"Y", "e", "s">>
    /\ session_state.report # ""

\* C17: the clarify handle is the identifier of the reply of the transition
\* 0->1 and the planner handle the identifier of the reply of 1->2; both keep
\* their value until the restart; every planner call continues from the
\* clarify handle, and every search call and every additional-query call
\* from the planner handle, which is no handle of a search result.
C17_HandlesForwarded ==
    [][/\ \A r \in 1..Len(event'.runs) : \A c \in 1..Len(event'.runs[r].calls) :
            LET call == event'.runs[r].calls[c] IN
            /\ call.fn = "get_goal_and_queries" =>
                    /\ call.prev = session_state.clarify_id
                    /\ call.prev # None
            /\ call.fn \in {"run_search", "get_more_queries"} =>
                    /\ call.prev = session_state.goal_and_queries_id
                    /\ call.prev # None
                    /\ call.prev # session_state.clarify_id
                    /\ call.prev \notin RespIds(session_state.collected)
                    /\ call.prev \notin RespIds(session_state'.collected)
       /\ session_state.step = 0 /\ session_state'.step = 1 =>
            session_state'.clarify_id = event'.runs[1].calls[1].ret[2]
       /\ session_state.step = 1 /\ session_state'.step = 2 =>
            /\ session_state'.goal_and_queries_id = event'.runs[1].calls[1].ret[2]
            /\ session_state'.goal_and_queries_id # session_state.clarify_id
       /\ session_state.step # 0 /\ session_state'.step # 0 =>
            session_state'.clarify_id = session_state.clarify_id
       /\ session_state.step \in 2..4 /\ session_state'.step # 0 =>
            session_state'.goal_and_queries_id =
                session_state.goal_and_queries_id]_vars

\* a second pass of searches, after an additional-query call
C17_Witness ==
    /\ event.button = BtnSearch
    /\ session_state.step = 3
    /\ Len(event.runs[1].calls) = 3
    /\ event.runs[1].calls[3].prev = session_state.goal_and_queries_id
    /\ session_state.collected[1].resp_id \in ResultIdsB

\* C18: a search pass that completes replaces collected: the new list has one
\* result for each query, in order, and holds no result of the list it
\* replaces.
C18_PassReplacesCollected ==
    [][event'.button = BtnSearch /\ session_state'.step = 3 =>
            /\ Len(session_state'.collected) = Len(session_state.queries)
            /\ \A i \in 1..Len(session_state.queries) :
                    session_state'.collected[i].query = session_state.queries[i]
            /\ \A i \in 1..Len(session_state'.collected) :
                    \A j \in 1..Len(session_state.collected) :
                        session_state'.collected[i] # session_state.collected[j]
            /\ RespIds(session_state'.collected)
                    \cap RespIds(session_state.collected) = {}]_vars

\* a second pass over two queries, after a first pass over more
C18_Witness ==
    /\ event.button = BtnSearch
    /\ session_state.step = 3
    /\ Len(session_state.collected) = 2
    /\ session_state.collected[1].resp_id \in ResultIdsB

\* C19: while the step is 0, 1, 2 or 3 the report is empty.
C19_ReportOnlyAtStep4 ==
    session_state.step \in 0..3 => session_state.report = ""

\* the results of a second pass are on the page, no report is written
C19_Witness ==
    /\ session_state.step = 3
    /\ event.button = BtnNone
    /\ session_state.report = ""
    /\ Len(session_state.collected) = 1
    /\ session_state.collected[1].resp_id \in ResultIdsB

\* C20: when every gateway call succeeds and the user keeps clicking a button
\* towards the report, a session at step 3 reaches step 4.
C20_ReportReached == (session_state.step = 3) ~> (session_state.step = 4)
====
